---- MODULE Spec2Model ----
(***************************************************************************)
(* Model of the design token server: the CSS section extraction and line  *)
(* splicing of css-parser.js (replaceLines, extractDesignTokenSection,    *)
(* extractThemeBlocks), and the webhook handler of server.js with the      *)
(* workflow of workflow.js running against the GitHub repository.          *)
(*                                                                         *)
(* A text is a sequence of one-character strings; "\n" is the line         *)
(* separator.  Lines are 1-indexed as in the source.                       *)
(***************************************************************************)
EXTENDS Integers, Sequences, FiniteSets, TLC

VARIABLES
    \* ---- one call of replaceLines(originalContent, startLine, endLine, newContent)
    argDocument,        \* the originalContent argument
    argStart,           \* the startLine argument
    argEnd,             \* the endLine argument
    argText,            \* the newContent argument
    returned,           \* what the call produced: a document or the thrown error
    splicePc,           \* "idle" | "call" | "done"
    \* ---- one call of extractDesignTokenSection(cssContent): the scan loop's state
    cssContent,
    lines,              \* cssContent.split('\n')
    i,                  \* loop index, 0-based as in the source
    themeStartLine,
    rootStartLine,
    darkThemeStartLine,
    darkThemeEndLine,
    inBlock,
    braceDepth,
    currentBlockType,
    section,            \* the returned value: NotFound (null) or the section
    pc,                 \* "idle" | "call" | "scan" | "validate" | "done"
                        \*        | "blocksCall" | "blocksScan" | "blocksDone"
    \* ---- one call of extractThemeBlocks(cssContent): its scan shares the names
    \* cssContent, lines, i, inBlock, braceDepth with the scan above and adds
    blocks,
    blockType,
    blockStartLine,
    blockContent,
    mainThemeBlock,     \* what extractMainThemeBlock(cssContent) returned
    \* ---- the server: POST /webhook/figma-tokens and the workflow runs it starts
    processEnv,         \* the names of the process.env variables that are set
    requests,           \* per request: what the client sent
    responses,          \* per request: what res.json sent back
    runs,               \* per request: the locals of its processUpdate run
    \* ---- the GitHub repository the workflow talks to
    branches,           \* the branch names that exist
    files,              \* per branch: the content of the target file
    pulls               \* the pull requests, by number

spliceVars == <<argDocument, argStart, argEnd, argText, returned, splicePc>>
locateVars == <<cssContent, lines, i, themeStartLine, rootStartLine, darkThemeStartLine,
                darkThemeEndLine, inBlock, braceDepth, currentBlockType, section, pc>>
themeBlockVars == <<blocks, blockType, blockStartLine, blockContent, mainThemeBlock>>
serverVars == <<processEnv, requests, responses, runs, branches, files, pulls>>
vars == <<spliceVars, locateVars, themeBlockVars, serverVars>>

\* what a call of replaceLines leaves alone
nonSpliceVars == <<locateVars, themeBlockVars, serverVars>>
\* what a call of extractDesignTokenSection leaves alone
nonLocateVars == <<spliceVars, themeBlockVars, serverVars>>
\* what the server leaves alone
nonServerVars == <<spliceVars, locateVars, themeBlockVars>>

----------------------------------------------------------------------------
(* Bounds of the model *)

\* longest text handed to replaceLines, in characters
MaxTextLen == 4
\* most lines of a document handed to extractDesignTokenSection
MaxDocLines == 4
\* most webhook requests the server receives
MaxRequests == 2
\* most lines of a document handed to both scanners
MaxScannerLines == 6

----------------------------------------------------------------------------
(* Texts *)

NL == "\n"

\* all texts over the characters S of at most n characters
Texts(S, n) == UNION {[1..m -> S] : m \in 0..n}

\* String.prototype.split('\n'): the pieces between separators; a text with
\* no separator (the empty text included) is one piece
RECURSIVE splitFrom(_, _, _)
splitFrom(text, k, piece) ==
    IF k > Len(text) THEN <<piece>>
    ELSE IF text[k] = NL THEN <<piece>> \o splitFrom(text, k + 1, <<>>)
    ELSE splitFrom(text, k + 1, Append(piece, text[k]))

split(text) == splitFrom(text, 1, <<>>)

\* Array.prototype.join('\n')
RECURSIVE join(_)
join(arr) ==
    IF Len(arr) = 0 THEN <<>>
    ELSE IF Len(arr) = 1 THEN arr[1]
    ELSE arr[1] \o <<NL>> \o join(Tail(arr))

\* Array.prototype.slice(from, to): 0-based, `to` exclusive, both clamped
slice(arr, from, to) ==
    LET lo == IF from < 0 THEN 0 ELSE IF from > Len(arr) THEN Len(arr) ELSE from
        hi == IF to < 0 THEN 0 ELSE IF to > Len(arr) THEN Len(arr) ELSE to
    IN  IF lo >= hi THEN <<>> ELSE SubSeq(arr, lo + 1, hi)

----------------------------------------------------------------------------
(* replaceLines *)

\* the guard without its inverted-range test
InvalidLineRangeNoOrder(startLine, endLine, lineCount) ==
    startLine < 1 \/ endLine > lineCount

\* the guard of the throw: the range is rejected
InvalidLineRange(startLine, endLine, lineCount) ==
    startLine < 1 \/ endLine > lineCount \/ startLine > endLine

\* an off-by-one: the slice keeps the range's first line
beforeThroughStart(docLines, startLine) == slice(docLines, 0, startLine)

\* lines.slice(0, startLine - 1)
before(docLines, startLine) == slice(docLines, 0, startLine - 1)

\* an off-by-one: the slice keeps the range's last line
afterFromEnd(docLines, endLine) == slice(docLines, endLine - 1, Len(docLines))

\* lines.slice(endLine)
after(docLines, endLine) == slice(docLines, endLine, Len(docLines))

\* newContent.split('\n')
newLines(newContent) == split(newContent)

InvalidRange(startLine, endLine, totalLines) ==
    [kind |-> "InvalidRange", startLine |-> startLine, endLine |-> endLine,
     totalLines |-> totalLines]

Document(content) == [kind |-> "document", content |-> content]

replaceLines(originalContent, startLine, endLine, newContent) ==
    LET docLines == split(originalContent)
    IN  IF InvalidLineRange(startLine, endLine, Len(docLines))
        THEN InvalidRange(startLine, endLine, Len(docLines))
        ELSE Document(join(before(docLines, startLine) \o newLines(newContent)
                           \o after(docLines, endLine)))

----------------------------------------------------------------------------
(* The splice specification: one call of replaceLines on arbitrary inputs *)

SpliceChars == {"a", NL}
SpliceTexts == Texts(SpliceChars, MaxTextLen)
\* line numbers offered: 0 (below the first line) .. one past the longest document
SpliceLineNumbers == 0..(MaxTextLen + 2)

\* the requests the server receives, in the order of their arrival
Requests == 1..MaxRequests

Main == "main"
\* config.botBranch (README: bot-update-design-tokens)
BotBranch == "bot-update-design-tokens"

Undefined == [kind |-> "undefined"]

\* the locals of a processUpdate run that has not started
NoRun ==
    [pc |-> "idle", newCSS |-> <<>>, testMode |-> FALSE, botBranchExists |-> FALSE,
     sourceBranch |-> "undefined", oldCSS |-> <<>>, fileSha |-> Undefined,
     sha |-> Undefined, mergedCSS |-> <<>>, result |-> Undefined, calls |-> <<>>]

\* the repository before the first run: main holds the file, no bot branch
NoFile == <<>>

ServerIdle ==
    /\ processEnv = {}
    /\ requests = [r \in Requests |-> Undefined]
    /\ responses = [r \in Requests |-> Undefined]
    /\ runs = [r \in Requests |-> NoRun]
    /\ branches = {Main}
    /\ files = [b \in {Main, BotBranch} |-> NoFile]
    /\ pulls = <<>>

ThemeBlocksIdle ==
    /\ blocks = <<>>
    /\ blockType = "null"
    /\ blockStartLine = -1
    /\ blockContent = <<>>
    /\ mainThemeBlock = [kind |-> "none"]

LocateIdle ==
    /\ cssContent = <<>>
    /\ i = 0
    /\ themeStartLine = -1
    /\ rootStartLine = -1
    /\ darkThemeStartLine = -1
    /\ darkThemeEndLine = -1
    /\ inBlock = FALSE
    /\ braceDepth = 0
    /\ currentBlockType = "null"
    /\ section = [kind |-> "none"]
    /\ lines = <<>>
    /\ pc = "idle"

SpliceInit ==
    /\ argDocument \in SpliceTexts
    /\ argText \in SpliceTexts
    /\ argStart \in SpliceLineNumbers
    /\ argEnd \in SpliceLineNumbers
    /\ returned = [kind |-> "none"]
    /\ splicePc = "call"
    /\ LocateIdle
    /\ ThemeBlocksIdle
    /\ ServerIdle

\* the call throws: no document is produced
ReplaceLinesThrow ==
    /\ splicePc = "call"
    /\ replaceLines(argDocument, argStart, argEnd, argText).kind = "InvalidRange"
    /\ returned' = replaceLines(argDocument, argStart, argEnd, argText)
    /\ splicePc' = "done"
    /\ UNCHANGED <<argDocument, argStart, argEnd, argText, nonSpliceVars>>

\* the call returns the spliced document
ReplaceLinesReturn ==
    /\ splicePc = "call"
    /\ replaceLines(argDocument, argStart, argEnd, argText).kind = "document"
    /\ returned' = replaceLines(argDocument, argStart, argEnd, argText)
    /\ splicePc' = "done"
    /\ UNCHANGED <<argDocument, argStart, argEnd, argText, nonSpliceVars>>

SpliceNext == ReplaceLinesThrow \/ ReplaceLinesReturn

SpliceSpec == SpliceInit /\ [][SpliceNext]_vars

----------------------------------------------------------------------------
(* extractDesignTokenSection: the helpers of the scan *)

WhiteSpace == {" ", "\t", "\r", NL}

\* String.prototype.trim()
RECURSIVE trim(_)
trim(line) ==
    IF Len(line) = 0 THEN line
    ELSE IF line[1] \in WhiteSpace THEN trim(Tail(line))
    ELSE IF line[Len(line)] \in WhiteSpace THEN trim(SubSeq(line, 1, Len(line) - 1))
    ELSE line

\* String.prototype.startsWith(prefix)
startsWith(str, prefix) ==
    Len(str) >= Len(prefix) /\ SubSeq(str, 1, Len(prefix)) = prefix

\* String.prototype.includes(sub)
includes(str, sub) ==
    \E k \in 0..(Len(str) - Len(sub)) : SubSeq(str, k + 1, k + Len(sub)) = sub

AtTheme == <<"@", "t", "h", "e", "m", "e">>
Root == <<":", "r", "o", "o", "t">>
DarkTheme == <<".", "d", "a", "r", "k", "-", "t", "h", "e", "m", "e">>
Inline == <<"i", "n", "l", "i", "n", "e">>

\* (line.match(/c/g) || []).length
matchCount(line, c) == Cardinality({k \in 1..Len(line) : line[k] = c})

\* braceDepth += count of "{" ; braceDepth -= count of "}"
braceDelta(line) == matchCount(line, "{") - matchCount(line, "}")

\* trimmedLine.startsWith('@theme') && !trimmedLine.includes('inline')
isThemeStart(trimmedLine) ==
    startsWith(trimmedLine, AtTheme) /\ ~includes(trimmedLine, Inline)

\* trimmedLine.startsWith(':root')
isRootStart(trimmedLine) == startsWith(trimmedLine, Root)

\* trimmedLine.startsWith('.dark-theme')
isDarkThemeStart(trimmedLine) == startsWith(trimmedLine, DarkTheme)

\* the validation without its test of the @theme start
sectionMissingEndOnly(themeStart, darkThemeEnd) == darkThemeEnd = -1

\* themeStartLine === -1 || darkThemeEndLine === -1
sectionMissing(themeStart, darkThemeEnd) == themeStart = -1 \/ darkThemeEnd = -1

\* an off-by-one: the slice starts after the @theme line
sectionLinesAfterStart(docLines, themeStart, darkThemeEnd) ==
    slice(docLines, themeStart, darkThemeEnd)

\* lines.slice(themeStartLine - 1, darkThemeEndLine)
sectionLines(docLines, themeStart, darkThemeEnd) ==
    slice(docLines, themeStart - 1, darkThemeEnd)

\* the break test taken for every block type
closesSectionAnyBlock(currentType) == TRUE

\* currentBlockType === 'dark-theme'
closesSection(currentType) == currentType = "dark-theme"

NotFound == [kind |-> "null"]

Section(docLines, themeStart, rootStart, darkThemeStart, darkThemeEnd) ==
    [kind |-> "section",
     startLine |-> themeStart,
     endLine |-> darkThemeEnd,
     content |-> join(sectionLines(docLines, themeStart, darkThemeEnd)),
     blocks |-> [theme |-> themeStart, root |-> rootStart,
                 darkTheme |-> darkThemeStart, darkThemeEnd |-> darkThemeEnd]]

----------------------------------------------------------------------------
(* extractDesignTokenSection: one action per path through the loop body *)

\* const line = lines[i]; lineNumber = i + 1; trimmedLine = line.trim()
line == lines[i + 1]
lineNumber == i + 1
trimmedLine == trim(line)

\* the guards of the three anchor tests, in the order the loop body tries them
ThemeTest == themeStartLine = -1 /\ isThemeStart(trimmedLine)
RootTest == rootStartLine = -1 /\ isRootStart(trimmedLine)
DarkThemeTest == isDarkThemeStart(trimmedLine)

\* i++ and the loop's test i < lines.length
NextLine ==
    /\ i' = i + 1
    /\ pc' = IF i + 1 < Len(lines) THEN "scan" ELSE "validate"

\* the function is entered: the content is split and the locals initialised
Enter ==
    /\ pc = "call"
    /\ lines' = split(cssContent)
    /\ themeStartLine' = -1
    /\ rootStartLine' = -1
    /\ darkThemeStartLine' = -1
    /\ darkThemeEndLine' = -1
    /\ inBlock' = FALSE
    /\ braceDepth' = 0
    /\ currentBlockType' = "null"
    /\ i' = 0
    /\ pc' = "scan"
    /\ UNCHANGED <<cssContent, section, nonLocateVars>>

ThemeAnchor ==
    /\ pc = "scan"
    /\ ThemeTest
    /\ themeStartLine' = lineNumber
    /\ inBlock' = TRUE
    /\ currentBlockType' = "theme"
    /\ braceDepth' = 0 + braceDelta(line)
    /\ NextLine
    /\ UNCHANGED <<cssContent, lines, rootStartLine, darkThemeStartLine,
                   darkThemeEndLine, section, nonLocateVars>>

RootAnchor ==
    /\ pc = "scan"
    /\ ~ThemeTest
    /\ RootTest
    /\ rootStartLine' = lineNumber
    /\ inBlock' = TRUE
    /\ currentBlockType' = "root"
    /\ braceDepth' = 0 + braceDelta(line)
    /\ NextLine
    /\ UNCHANGED <<cssContent, lines, themeStartLine, darkThemeStartLine,
                   darkThemeEndLine, section, nonLocateVars>>

DarkThemeAnchor ==
    /\ pc = "scan"
    /\ ~ThemeTest
    /\ ~RootTest
    /\ DarkThemeTest
    /\ darkThemeStartLine' = lineNumber
    /\ inBlock' = TRUE
    /\ currentBlockType' = "dark-theme"
    /\ braceDepth' = 0 + braceDelta(line)
    /\ NextLine
    /\ UNCHANGED <<cssContent, lines, themeStartLine, rootStartLine,
                   darkThemeEndLine, section, nonLocateVars>>

NoAnchor == ~ThemeTest /\ ~RootTest /\ ~DarkThemeTest

\* a line inside a block that leaves the block open
BlockLine ==
    /\ pc = "scan"
    /\ NoAnchor
    /\ inBlock
    /\ braceDepth + braceDelta(line) # 0
    /\ braceDepth' = braceDepth + braceDelta(line)
    /\ NextLine
    /\ UNCHANGED <<cssContent, lines, themeStartLine, rootStartLine, darkThemeStartLine,
                   darkThemeEndLine, inBlock, currentBlockType, section, nonLocateVars>>

\* the line that brings the depth of an @theme or :root block back to zero
BlockClose ==
    /\ pc = "scan"
    /\ NoAnchor
    /\ inBlock
    /\ braceDepth + braceDelta(line) = 0
    /\ ~closesSection(currentBlockType)
    /\ braceDepth' = 0
    /\ inBlock' = FALSE
    /\ currentBlockType' = "null"
    /\ NextLine
    /\ UNCHANGED <<cssContent, lines, themeStartLine, rootStartLine, darkThemeStartLine,
                   darkThemeEndLine, section, nonLocateVars>>

\* the line that brings the depth of the .dark-theme block back to zero: break
DarkThemeClose ==
    /\ pc = "scan"
    /\ NoAnchor
    /\ inBlock
    /\ braceDepth + braceDelta(line) = 0
    /\ closesSection(currentBlockType)
    /\ braceDepth' = 0
    /\ darkThemeEndLine' = lineNumber
    /\ pc' = "validate"
    /\ UNCHANGED <<cssContent, lines, i, themeStartLine, rootStartLine,
                   darkThemeStartLine, inBlock, currentBlockType, section, nonLocateVars>>

\* a line outside every block that starts no anchor
OutsideLine ==
    /\ pc = "scan"
    /\ NoAnchor
    /\ ~inBlock
    /\ NextLine
    /\ UNCHANGED <<cssContent, lines, themeStartLine, rootStartLine, darkThemeStartLine,
                   darkThemeEndLine, inBlock, braceDepth, currentBlockType, section,
                   nonLocateVars>>

\* after the loop: return null
ReturnNull ==
    /\ pc = "validate"
    /\ sectionMissing(themeStartLine, darkThemeEndLine)
    /\ section' = NotFound
    /\ pc' = "done"
    /\ UNCHANGED <<cssContent, lines, i, themeStartLine, rootStartLine, darkThemeStartLine,
                   darkThemeEndLine, inBlock, braceDepth, currentBlockType, nonLocateVars>>

\* after the loop: return the section
ReturnSection ==
    /\ pc = "validate"
    /\ ~sectionMissing(themeStartLine, darkThemeEndLine)
    /\ section' = Section(lines, themeStartLine, rootStartLine, darkThemeStartLine,
                          darkThemeEndLine)
    /\ pc' = "done"
    /\ UNCHANGED <<cssContent, lines, i, themeStartLine, rootStartLine, darkThemeStartLine,
                   darkThemeEndLine, inBlock, braceDepth, currentBlockType, nonLocateVars>>

----------------------------------------------------------------------------
(* The locate specification: one call of extractDesignTokenSection *)

Sp == <<" ">>
Open == <<"{">>
Close == <<"}">>

\* the lines documents are made of
DocLineKinds ==
    { AtTheme \o Sp \o Open,                        \* "@theme {"
      AtTheme \o Open \o Close,                     \* "@theme{}"
      AtTheme \o Sp \o Inline \o Sp \o Open,        \* "@theme inline {"
      Root \o Sp \o Open,                           \* ":root {"
      DarkTheme \o Sp \o Open,                      \* ".dark-theme {"
      Sp \o DarkTheme \o Sp \o Open,                \* " .dark-theme {"
      DarkTheme \o Open \o Close,                   \* ".dark-theme{}"
      Close,                                        \* "}"
      Sp \o <<"x">>,                                \* " x"
      <<"x">> \o Open }                             \* "x{"

\* the documents of 1..MaxDocLines lines
LocateDocuments ==
    {join(ls) : ls \in UNION {[1..m -> DocLineKinds] : m \in 1..MaxDocLines}}

SpliceIdle ==
    /\ argDocument = <<>>
    /\ argStart = 0
    /\ argEnd = 0
    /\ argText = <<>>
    /\ returned = [kind |-> "none"]
    /\ splicePc = "idle"

LocateInit ==
    /\ cssContent \in LocateDocuments
    /\ lines = <<>>
    /\ i = 0
    /\ themeStartLine = -1
    /\ rootStartLine = -1
    /\ darkThemeStartLine = -1
    /\ darkThemeEndLine = -1
    /\ inBlock = FALSE
    /\ braceDepth = 0
    /\ currentBlockType = "null"
    /\ section = [kind |-> "none"]
    /\ pc = "call"
    /\ SpliceIdle
    /\ ThemeBlocksIdle
    /\ ServerIdle

LocateNext ==
    \/ Enter
    \/ ThemeAnchor
    \/ RootAnchor
    \/ DarkThemeAnchor
    \/ BlockLine
    \/ BlockClose
    \/ DarkThemeClose
    \/ OutsideLine
    \/ ReturnNull
    \/ ReturnSection

LocateSpec == LocateInit /\ [][LocateNext]_vars

----------------------------------------------------------------------------
(* extractThemeBlocks: one action per path through the loop body *)

\* what a call of extractThemeBlocks leaves alone
nonThemeBlockVars ==
    <<spliceVars, themeStartLine, rootStartLine, darkThemeStartLine, darkThemeEndLine,
      currentBlockType, section, mainThemeBlock, serverVars>>

\* line.trim().startsWith('@theme')
isThemeDeclaration(text) == startsWith(trim(text), AtTheme)

\* every block classified as the main theme block
themeBlockTypeAlwaysTheme(text) == "theme"

\* line.includes('inline') ? 'theme inline' : 'theme'
themeBlockType(text) == IF includes(text, Inline) THEN "theme inline" ELSE "theme"

\* the completion test without its depth test
blockCompleteAnyDepth(depth, contentLength) == contentLength > 1

\* braceDepth === 0 && blockContent.length > 1
blockComplete(depth, contentLength) == depth = 0 /\ contentLength > 1

\* the object pushed on blocks
ThemeBlock(type, startLine, endLine, contentLines) ==
    [type |-> type, startLine |-> startLine, endLine |-> endLine,
     content |-> join(contentLines)]

\* i++ and the loop's test i < lines.length; after the loop, return blocks
NextBlocksLine ==
    /\ i' = i + 1
    /\ pc' = IF i + 1 < Len(lines) THEN "blocksScan" ELSE "blocksDone"

\* the function is entered: the content is split and the locals initialised
EnterThemeBlocks ==
    /\ pc = "blocksCall"
    /\ lines' = split(cssContent)
    /\ blocks' = <<>>
    /\ inBlock' = FALSE
    /\ blockType' = "null"
    /\ blockStartLine' = -1
    /\ blockContent' = <<>>
    /\ braceDepth' = 0
    /\ i' = 0
    /\ pc' = "blocksScan"
    /\ UNCHANGED <<cssContent, nonThemeBlockVars>>

\* an @theme declaration met outside a block
ThemeBlockStart ==
    /\ pc = "blocksScan"
    /\ ~inBlock
    /\ isThemeDeclaration(line)
    /\ inBlock' = TRUE
    /\ blockStartLine' = lineNumber
    /\ blockContent' = <<line>>
    /\ blockType' = themeBlockType(line)
    /\ braceDepth' = 0 + braceDelta(line)
    /\ NextBlocksLine
    /\ UNCHANGED <<cssContent, lines, blocks, nonThemeBlockVars>>

\* a line inside a block that does not complete it
ThemeBlockLine ==
    /\ pc = "blocksScan"
    /\ inBlock
    /\ ~blockComplete(braceDepth + braceDelta(line), Len(blockContent) + 1)
    /\ blockContent' = Append(blockContent, line)
    /\ braceDepth' = braceDepth + braceDelta(line)
    /\ NextBlocksLine
    /\ UNCHANGED <<cssContent, lines, blocks, inBlock, blockType, blockStartLine,
                   nonThemeBlockVars>>

\* the line that completes the block: the block is pushed
ThemeBlockComplete ==
    /\ pc = "blocksScan"
    /\ inBlock
    /\ blockComplete(braceDepth + braceDelta(line), Len(blockContent) + 1)
    /\ braceDepth' = braceDepth + braceDelta(line)
    /\ blocks' = Append(blocks, ThemeBlock(blockType, blockStartLine, lineNumber,
                                           Append(blockContent, line)))
    /\ inBlock' = FALSE
    /\ blockType' = "null"
    /\ blockContent' = <<>>
    /\ NextBlocksLine
    /\ UNCHANGED <<cssContent, lines, blockStartLine, nonThemeBlockVars>>

\* a line outside every block that is no @theme declaration
ThemeBlockSkip ==
    /\ pc = "blocksScan"
    /\ ~inBlock
    /\ ~isThemeDeclaration(line)
    /\ NextBlocksLine
    /\ UNCHANGED <<cssContent, lines, inBlock, braceDepth, blocks, blockType,
                   blockStartLine, blockContent, nonThemeBlockVars>>

----------------------------------------------------------------------------
(* The theme block specification: one call of extractThemeBlocks *)

ThemeBlocksInit ==
    /\ cssContent \in LocateDocuments
    /\ lines = <<>>
    /\ i = 0
    /\ inBlock = FALSE
    /\ braceDepth = 0
    /\ pc = "blocksCall"
    /\ ThemeBlocksIdle
    /\ themeStartLine = -1
    /\ rootStartLine = -1
    /\ darkThemeStartLine = -1
    /\ darkThemeEndLine = -1
    /\ currentBlockType = "null"
    /\ section = [kind |-> "none"]
    /\ SpliceIdle
    /\ ServerIdle

ThemeBlocksNext ==
    \/ EnterThemeBlocks
    \/ ThemeBlockStart
    \/ ThemeBlockLine
    \/ ThemeBlockComplete
    \/ ThemeBlockSkip

ThemeBlocksSpec == ThemeBlocksInit /\ [][ThemeBlocksNext]_vars

----------------------------------------------------------------------------
(* The parser specification: one call of either scanner on a document *)

ParserInit ==
    /\ cssContent \in LocateDocuments
    /\ pc \in {"call", "blocksCall"}
    /\ lines = <<>>
    /\ i = 0
    /\ inBlock = FALSE
    /\ braceDepth = 0
    /\ themeStartLine = -1
    /\ rootStartLine = -1
    /\ darkThemeStartLine = -1
    /\ darkThemeEndLine = -1
    /\ currentBlockType = "null"
    /\ section = [kind |-> "none"]
    /\ ThemeBlocksIdle
    /\ SpliceIdle
    /\ ServerIdle

ParserNext == LocateNext \/ ThemeBlocksNext

ParserSpec == ParserInit /\ [][ParserNext]_vars

----------------------------------------------------------------------------
(* extractDesignTokenSection as the workflow calls it: the scan as a function *)

\* the scan's locals before the first line
scanStart ==
    [themeStartLine |-> -1, rootStartLine |-> -1, darkThemeStartLine |-> -1,
     darkThemeEndLine |-> -1, inBlock |-> FALSE, braceDepth |-> 0,
     currentBlockType |-> "null"]

\* the loop body on line k and the lines after it
RECURSIVE scanLines(_, _, _)
scanLines(docLines, k, st) ==
    IF k > Len(docLines) THEN st
    ELSE LET text == docLines[k]
             trimmed == trim(text)
             depth == st.braceDepth + braceDelta(text)
         IN  IF st.themeStartLine = -1 /\ isThemeStart(trimmed)
             THEN scanLines(docLines, k + 1,
                      [st EXCEPT !.themeStartLine = k, !.inBlock = TRUE,
                                 !.currentBlockType = "theme",
                                 !.braceDepth = 0 + braceDelta(text)])
             ELSE IF st.rootStartLine = -1 /\ isRootStart(trimmed)
             THEN scanLines(docLines, k + 1,
                      [st EXCEPT !.rootStartLine = k, !.inBlock = TRUE,
                                 !.currentBlockType = "root",
                                 !.braceDepth = 0 + braceDelta(text)])
             ELSE IF isDarkThemeStart(trimmed)
             THEN scanLines(docLines, k + 1,
                      [st EXCEPT !.darkThemeStartLine = k, !.inBlock = TRUE,
                                 !.currentBlockType = "dark-theme",
                                 !.braceDepth = 0 + braceDelta(text)])
             ELSE IF ~st.inBlock
             THEN scanLines(docLines, k + 1, st)
             ELSE IF depth # 0
             THEN scanLines(docLines, k + 1, [st EXCEPT !.braceDepth = depth])
             ELSE IF closesSection(st.currentBlockType)
             THEN [st EXCEPT !.braceDepth = 0, !.darkThemeEndLine = k]
             ELSE scanLines(docLines, k + 1,
                      [st EXCEPT !.braceDepth = 0, !.inBlock = FALSE,
                                 !.currentBlockType = "null"])

extractDesignTokenSection(css) ==
    LET docLines == split(css)
        st == scanLines(docLines, 1, scanStart)
    IN  IF sectionMissing(st.themeStartLine, st.darkThemeEndLine)
        THEN NotFound
        ELSE Section(docLines, st.themeStartLine, st.rootStartLine,
                     st.darkThemeStartLine, st.darkThemeEndLine)

----------------------------------------------------------------------------
(* The server: webhook handler, workflow runs and the GitHub repository *)

\* a token line of the file: " a", " b"
TokenValues == {"a", "b"}
TokenLine(v) == <<" ", v>>

\* a CSS file with a rule before its token section
TokenDocument(v) ==
    join(<< <<"x">>, AtTheme \o Sp \o Open, TokenLine(v), Close,
            DarkTheme \o Sp \o Open, Close >>)

\* a CSS text without a token section
PlainDocument == <<"x">>

\* req.body: a text (possibly empty) or, with another content type, an object
RequestBodies ==
    {[type |-> "string", value |-> d] :
        d \in {<<>>, PlainDocument} \cup {TokenDocument(v) : v \in TokenValues}}
    \cup {[type |-> "object", value |-> <<>>]}

\* a list of required variables that leaves BOT_BRANCH out
requiredEnvVarsWithoutBotBranch ==
    {"ANTHROPIC_API_KEY", "GITHUB_TOKEN", "GITHUB_OWNER", "GITHUB_REPO",
     "TARGET_FILE_PATH"}

requiredEnvVars ==
    {"ANTHROPIC_API_KEY", "GITHUB_TOKEN", "GITHUB_OWNER", "GITHUB_REPO",
     "TARGET_FILE_PATH", "BOT_BRANCH"}

\* requiredEnvVars.filter(v => !process.env[v])
missingVars == requiredEnvVars \ processEnv

\* !css || typeof css !== 'string'
invalidBody(body) == body.value = <<>> \/ body.type # "string"

Response(status, success, message, error) ==
    [status |-> status, success |-> success, message |-> message, error |-> error]

\* the blob sha of a file content and the commit sha of a branch head
blobSha(content) == [kind |-> "blob", of |-> content]
commitSha(content) == [kind |-> "commit", of |-> content]

\* the store compares the sha of an update with the blob it is to replace
storeAcceptsAny(current, sha) == TRUE

storeAccepts(current, sha) == sha = blobSha(current)

\* the branch the old CSS is read from
sourceBranchAlwaysMain(botBranchExists) == Main

sourceBranchFor(botBranchExists) == IF botBranchExists THEN BotBranch ELSE Main

PullUrl(number) == [kind |-> "pull", number |-> number]
TreeUrl(branch) == [kind |-> "tree", branch |-> branch]

\* pulls.list({head, base, state: 'open'})
openPulls(headBranch, baseBranch) ==
    {n \in 1..Len(pulls) : /\ pulls[n].head = headBranch
                           /\ pulls[n].base = baseBranch
                           /\ pulls[n].state = "open"}

\* the replies of the Claude API offered: the old section kept, the new one
\* taken, or a text that is no token section; none has a code fence
ClaudeReplies(oldTokenSection, newTokenSection) ==
    {oldTokenSection, newTokenSection, PlainDocument}

\* without code fences in the reply the three replace calls change nothing
cleanMarkdownFormatting(text) == trim(text)

Call(op, ref) == [op |-> op, ref |-> ref]

\* the GitHub API call a run makes at its position
apiCall(run) ==
    CASE run.pc = "scheduled" -> <<Call("branchExists", BotBranch)>>
      [] run.pc = "getFileContent" -> <<Call("getFileContent", run.sourceBranch)>>
      [] run.pc = "getRef" -> <<Call("createBranch", Main)>>
      [] run.pc = "updateFile" -> <<Call("updateFile", BotBranch)>>
      [] run.pc = "getPullRequest" -> <<Call("getPullRequest", BotBranch)>>
      [] run.pc = "createPullRequest" -> <<Call("createPullRequest", BotBranch)>>
      [] OTHER -> <<>>

called(run) == [run EXCEPT !.calls = @ \o apiCall(run)]

\* a catch that records the error and lets the run go on
failedRunsOn(run, message) ==
    [run EXCEPT !.result = [success |-> FALSE, noChanges |-> FALSE,
                            prUrl |-> Undefined, error |-> message]]

\* catch (error): return { success: false, error: error.message }
failed(run, message) ==
    [run EXCEPT !.pc = "done",
                !.result = [success |-> FALSE, noChanges |-> FALSE,
                            prUrl |-> Undefined, error |-> message]]

\* a no-change test that never finds the documents equal
noChangesNever(mergedCSS, oldCSS) == FALSE

\* mergedCSS === oldCSS
noChanges(mergedCSS, oldCSS) == mergedCSS = oldCSS

\* return { success: true, noChanges: true, message }
unchanged(run) ==
    [run EXCEPT !.pc = "done",
                !.result = [success |-> TRUE, noChanges |-> TRUE,
                            prUrl |-> Undefined, error |-> "undefined"]]

\* return { success: true, prUrl, testMode }
succeeded(run, prUrl) ==
    [run EXCEPT !.pc = "done",
                !.result = [success |-> TRUE, noChanges |-> FALSE,
                            prUrl |-> prUrl, error |-> "undefined"]]

\* a request arrives whose body is empty or no string: 400
PostInvalid(r) ==
    /\ requests[r] = Undefined
    /\ \A q \in 1..(r - 1) : requests[q] # Undefined
    /\ \E body \in RequestBodies, test \in BOOLEAN :
        /\ invalidBody(body)
        /\ requests' = [requests EXCEPT ![r] = [body |-> body, test |-> test]]
    /\ responses' = [responses EXCEPT ![r] =
           Response(400, FALSE, "undefined", "Invalid request: CSS content is required")]
    /\ UNCHANGED <<processEnv, runs, branches, files, pulls, nonServerVars>>

\* a request arrives while an environment variable is missing: thrown, 500
PostMissingEnv(r) ==
    /\ requests[r] = Undefined
    /\ \A q \in 1..(r - 1) : requests[q] # Undefined
    /\ missingVars # {}
    /\ \E body \in RequestBodies, test \in BOOLEAN :
        /\ ~invalidBody(body)
        /\ requests' = [requests EXCEPT ![r] = [body |-> body, test |-> test]]
    /\ responses' = [responses EXCEPT ![r] =
           Response(500, FALSE, "undefined", "Missing required environment variables")]
    /\ UNCHANGED <<processEnv, runs, branches, files, pulls, nonServerVars>>

\* a request is accepted: the response is sent and the run is handed to
\* setImmediate
PostQueued(r) ==
    /\ requests[r] = Undefined
    /\ \A q \in 1..(r - 1) : requests[q] # Undefined
    /\ missingVars = {}
    /\ \E body \in RequestBodies, test \in BOOLEAN :
        /\ ~invalidBody(body)
        /\ requests' = [requests EXCEPT ![r] = [body |-> body, test |-> test]]
        /\ runs' = [runs EXCEPT ![r] = [NoRun EXCEPT !.pc = "scheduled",
                                                       !.newCSS = body.value,
                                                       !.testMode = test]]
    /\ responses' = [responses EXCEPT ![r] =
           Response(200, TRUE, "Design tokens update queued for processing", "undefined")]
    /\ UNCHANGED <<processEnv, branches, files, pulls, nonServerVars>>

\* Step 1: github.branchExists(botBranch)
BranchExists(r) ==
    /\ runs[r].pc = "scheduled"
    /\ LET exists == BotBranch \in branches
       IN  runs' = [runs EXCEPT ![r] =
               [called(runs[r]) EXCEPT !.botBranchExists = exists,
                                       !.sourceBranch = sourceBranchFor(exists),
                                       !.pc = "getFileContent"]]
    /\ UNCHANGED <<processEnv, requests, responses, branches, files, pulls,
                   nonServerVars>>

\* Step 2: github.getFileContent(targetFilePath, sourceBranch)
GetFileContent(r) ==
    /\ runs[r].pc = "getFileContent"
    /\ LET run == called(runs[r])
       IN  runs' = [runs EXCEPT ![r] =
               IF run.sourceBranch \notin branches
               THEN failed(run, "Not Found")
               ELSE [run EXCEPT !.oldCSS = files[run.sourceBranch],
                                !.fileSha = blobSha(files[run.sourceBranch]),
                                !.pc = IF run.botBranchExists THEN "merge"
                                       ELSE "getRef"]]
    /\ UNCHANGED <<processEnv, requests, responses, branches, files, pulls,
                   nonServerVars>>

\* Step 3, createBranch: git.getRef(heads/main)
GetRef(r) ==
    /\ runs[r].pc = "getRef"
    /\ runs' = [runs EXCEPT ![r] =
           [called(runs[r]) EXCEPT !.sha = commitSha(files[Main]),
                                   !.pc = "createRef"]]
    /\ UNCHANGED <<processEnv, requests, responses, branches, files, pulls,
                   nonServerVars>>

\* Step 3, createBranch: git.createRef(refs/heads/botBranch, sha)
CreateRef(r) ==
    /\ runs[r].pc = "createRef"
    /\ IF BotBranch \in branches
       THEN /\ runs' = [runs EXCEPT ![r] = failed(runs[r], "Reference already exists")]
            /\ UNCHANGED <<branches, files>>
       ELSE /\ branches' = branches \cup {BotBranch}
            /\ files' = [files EXCEPT ![BotBranch] = runs[r].sha.of]
            /\ runs' = [runs EXCEPT ![r].pc = "merge"]
    /\ UNCHANGED <<processEnv, requests, responses, pulls, nonServerVars>>

\* Step 4: a section is missing from the old or the new CSS: thrown
ExtractThrows(r) ==
    /\ runs[r].pc = "merge"
    /\ LET oldTokenSection == extractDesignTokenSection(runs[r].oldCSS)
           newTokenSection == extractDesignTokenSection(runs[r].newCSS)
       IN  /\ oldTokenSection = NotFound \/ newTokenSection = NotFound
           /\ runs' = [runs EXCEPT ![r] =
                  failed(runs[r],
                         IF oldTokenSection = NotFound
                         THEN "No complete token section found in old CSS"
                         ELSE "No complete token section found in new CSS")]
    /\ UNCHANGED <<processEnv, requests, responses, branches, files, pulls,
                   nonServerVars>>

\* Steps 4-6: both sections found, Claude's reply spliced into the old CSS;
\* without a change the run returns here
MergeTokenSection(r) ==
    /\ runs[r].pc = "merge"
    /\ LET oldTokenSection == extractDesignTokenSection(runs[r].oldCSS)
           newTokenSection == extractDesignTokenSection(runs[r].newCSS)
       IN  /\ oldTokenSection # NotFound
           /\ newTokenSection # NotFound
           /\ \E reply \in ClaudeReplies(oldTokenSection.content,
                                         newTokenSection.content) :
                LET updatedTokenSection == cleanMarkdownFormatting(reply)
                    spliced == replaceLines(runs[r].oldCSS, oldTokenSection.startLine,
                                            oldTokenSection.endLine, updatedTokenSection)
                IN  runs' = [runs EXCEPT ![r] =
                        IF spliced.kind # "document"
                        THEN failed(runs[r], "Invalid line range")
                        ELSE IF noChanges(spliced.content, runs[r].oldCSS)
                        THEN unchanged([runs[r] EXCEPT !.mergedCSS = spliced.content])
                        ELSE [runs[r] EXCEPT !.mergedCSS = spliced.content,
                                             !.pc = "updateFile"]]
    /\ UNCHANGED <<processEnv, requests, responses, branches, files, pulls,
                   nonServerVars>>

\* Step 5: the call of the Claude API fails (invalid key, rate limit): thrown
MergeThrows(r) ==
    /\ runs[r].pc = "merge"
    /\ extractDesignTokenSection(runs[r].oldCSS) # NotFound
    /\ extractDesignTokenSection(runs[r].newCSS) # NotFound
    /\ runs' = [runs EXCEPT ![r] = failed(runs[r], "Claude API error")]
    /\ UNCHANGED <<processEnv, requests, responses, branches, files, pulls,
                   nonServerVars>>

\* Step 7: github.updateFile(targetFilePath, mergedCSS, botBranch, fileSha);
\* in test mode the run returns the branch URL after it
UpdateFile(r) ==
    /\ runs[r].pc = "updateFile"
    /\ LET run == called(runs[r])
       IN  IF BotBranch \notin branches
           THEN /\ runs' = [runs EXCEPT ![r] = failed(run, "Not Found")]
                /\ UNCHANGED files
           ELSE IF ~storeAccepts(files[BotBranch], run.fileSha)
           THEN /\ runs' = [runs EXCEPT ![r] = failed(run, "sha does not match")]
                /\ UNCHANGED files
           ELSE /\ files' = [files EXCEPT ![BotBranch] = run.mergedCSS]
                /\ runs' = [runs EXCEPT ![r] =
                       IF run.testMode THEN succeeded(run, TreeUrl(BotBranch))
                       ELSE [run EXCEPT !.pc = "getPullRequest"]]
    /\ UNCHANGED <<processEnv, requests, responses, branches, pulls, nonServerVars>>

\* Step 8: github.getPullRequest(botBranch, 'main')
GetPullRequest(r) ==
    /\ runs[r].pc = "getPullRequest"
    /\ LET run == called(runs[r])
           open == openPulls(BotBranch, Main)
       IN  runs' = [runs EXCEPT ![r] =
               IF open # {}
               THEN succeeded(run, PullUrl(CHOOSE n \in open : \A m \in open : n >= m))
               ELSE [run EXCEPT !.pc = "createPullRequest"]]
    /\ UNCHANGED <<processEnv, requests, responses, branches, files, pulls,
                   nonServerVars>>

\* Step 8: github.createPullRequest(title, botBranch, 'main', body); GitHub
\* refuses a second open pull request for the same head and base
CreatePullRequest(r) ==
    /\ runs[r].pc = "createPullRequest"
    /\ LET run == called(runs[r])
       IN  IF BotBranch \notin branches \/ openPulls(BotBranch, Main) # {}
           THEN /\ runs' = [runs EXCEPT ![r] = failed(run, "Validation Failed")]
                /\ UNCHANGED pulls
           ELSE /\ pulls' = Append(pulls, [head |-> BotBranch, base |-> Main,
                                           state |-> "open"])
                /\ runs' = [runs EXCEPT ![r] = succeeded(run, PullUrl(Len(pulls) + 1))]
    /\ UNCHANGED <<processEnv, requests, responses, branches, files, nonServerVars>>

\* a call of the GitHub API fails (rate limit, permissions): thrown
ApiError(r) ==
    /\ apiCall(runs[r]) # <<>> \/ runs[r].pc = "createRef"
    /\ runs' = [runs EXCEPT ![r] = failed(called(runs[r]), "API error")]
    /\ UNCHANGED <<processEnv, requests, responses, branches, files, pulls,
                   nonServerVars>>

\* a maintainer merges the open pull request; the bot branch goes with it
MergePullRequest ==
    /\ \E n \in openPulls(BotBranch, Main) :
           pulls' = [pulls EXCEPT ![n].state = "merged"]
    /\ BotBranch \in branches
    /\ files' = [files EXCEPT ![Main] = files[BotBranch], ![BotBranch] = NoFile]
    /\ branches' = branches \ {BotBranch}
    /\ UNCHANGED <<processEnv, requests, responses, runs, nonServerVars>>

ServerInit ==
    /\ processEnv \in SUBSET requiredEnvVars
    /\ requests = [r \in Requests |-> Undefined]
    /\ responses = [r \in Requests |-> Undefined]
    /\ runs = [r \in Requests |-> NoRun]
    /\ branches = {Main}
    /\ files = [b \in {Main, BotBranch} |->
                   IF b = Main THEN TokenDocument("a") ELSE NoFile]
    /\ pulls = <<>>
    /\ SpliceIdle
    /\ LocateIdle
    /\ ThemeBlocksIdle

ServerNext ==
    \/ \E r \in Requests :
        \/ PostInvalid(r)
        \/ PostMissingEnv(r)
        \/ PostQueued(r)
        \/ BranchExists(r)
        \/ GetFileContent(r)
        \/ GetRef(r)
        \/ CreateRef(r)
        \/ ExtractThrows(r)
        \/ MergeTokenSection(r)
        \/ MergeThrows(r)
        \/ UpdateFile(r)
        \/ GetPullRequest(r)
        \/ CreatePullRequest(r)
        \/ ApiError(r)
    \/ MergePullRequest

ServerSpec == ServerInit /\ [][ServerNext]_vars

----------------------------------------------------------------------------
(* The compose specification: locate a section, then splice a text over it *)

\* texts the merge may hand back in place of the section
ReplacementTexts == Texts({"x", NL}, 2)

\* const mergedCSS = replaceLines(oldCSS, oldTokenSection.startLine,
\*                                oldTokenSection.endLine, updatedTokenSection)
SpliceSection ==
    /\ pc = "done"
    /\ section.kind = "section"
    /\ splicePc = "idle"
    /\ \E updatedTokenSection \in ReplacementTexts \cup {section.content} :
        /\ argDocument' = cssContent
        /\ argStart' = section.startLine
        /\ argEnd' = section.endLine
        /\ argText' = updatedTokenSection
        /\ returned' = replaceLines(cssContent, section.startLine, section.endLine,
                                    updatedTokenSection)
    /\ splicePc' = "done"
    /\ UNCHANGED nonSpliceVars

ComposeNext == LocateNext \/ SpliceSection

ComposeSpec == LocateInit /\ [][ComposeNext]_vars

----------------------------------------------------------------------------
(* The main theme specification: extractDesignTokenSection and then         *)
(* extractMainThemeBlock on the same document                               *)

\* blocks.find(block => block.type === 'theme') || null
find(themeBlocks, type) ==
    LET matches == {n \in 1..Len(themeBlocks) : themeBlocks[n].type = type}
    IN  IF matches = {} THEN NotFound
        ELSE themeBlocks[CHOOSE n \in matches : \A m \in matches : n <= m]

\* the lines of the documents handed to both scanners
ScannerLineKinds ==
    { AtTheme \o Sp \o Inline \o Sp \o Open,        \* "@theme inline {"
      AtTheme \o Sp \o Open,                        \* "@theme {"
      AtTheme \o Open \o Close,                     \* "@theme{}"
      Root \o Sp \o Open,                           \* ":root {"
      DarkTheme \o Sp \o Open,                      \* ".dark-theme {"
      Close }                                       \* "}"

ScannerDocuments ==
    {join(ls) : ls \in UNION {[1..m -> ScannerLineKinds] : m \in 1..MaxScannerLines}}

\* extractMainThemeBlock is called on the document the section was taken from
CallExtractMainThemeBlock ==
    /\ pc = "done"
    /\ pc' = "blocksCall"
    /\ UNCHANGED <<cssContent, lines, i, themeStartLine, rootStartLine,
                   darkThemeStartLine, darkThemeEndLine, inBlock, braceDepth,
                   currentBlockType, section, nonLocateVars>>

\* extractThemeBlocks has returned: the first 'theme' block, or null
ReturnMainThemeBlock ==
    /\ pc = "blocksDone"
    /\ mainThemeBlock' = find(blocks, "theme")
    /\ pc' = "mainDone"
    /\ UNCHANGED <<cssContent, lines, i, inBlock, braceDepth, blocks, blockType,
                   blockStartLine, blockContent, spliceVars, themeStartLine,
                   rootStartLine, darkThemeStartLine, darkThemeEndLine,
                   currentBlockType, section, serverVars>>

MainThemeInit ==
    /\ cssContent \in ScannerDocuments
    /\ lines = <<>>
    /\ i = 0
    /\ themeStartLine = -1
    /\ rootStartLine = -1
    /\ darkThemeStartLine = -1
    /\ darkThemeEndLine = -1
    /\ inBlock = FALSE
    /\ braceDepth = 0
    /\ currentBlockType = "null"
    /\ section = [kind |-> "none"]
    /\ pc = "call"
    /\ SpliceIdle
    /\ ThemeBlocksIdle
    /\ ServerIdle

MainThemeNext ==
    \/ LocateNext
    \/ CallExtractMainThemeBlock
    \/ ThemeBlocksNext
    \/ ReturnMainThemeBlock

MainThemeSpec == MainThemeInit /\ [][MainThemeNext]_vars

----------------------------------------------------------------------------
(* replaceLines: the claims *)

ArgLines == split(argDocument)
ArgRangeValid == 1 <= argStart /\ argStart <= argEnd /\ argEnd <= Len(ArgLines)

\* C1: for a valid range the result is lines 1..s-1 of the document, then the
\* lines of the replacement text, then lines e+1..n of the document, in that
\* order: no line outside [s, e] is changed, dropped, duplicated or reordered.
ReplaceLinesFrame ==
    (splicePc = "done" /\ ArgRangeValid) =>
        /\ returned.kind = "document"
        /\ LET out == split(returned.content)
               repl == split(argText)
               shift == Len(repl) - (argEnd - argStart + 1)
           IN  /\ Len(out) = Len(ArgLines) + shift
               /\ \A k \in 1..(argStart - 1) : out[k] = ArgLines[k]
               /\ \A k \in 1..Len(repl) : out[argStart - 1 + k] = repl[k]
               /\ \A k \in (argEnd + 1)..Len(ArgLines) : out[k + shift] = ArgLines[k]

\* C1 witness: a splice with kept lines on both sides that changes the line count
ReplaceLinesFrameWitness ==
    /\ splicePc = "done"
    /\ returned.kind = "document"
    /\ argStart > 1
    /\ argEnd < Len(ArgLines)
    /\ Len(split(argText)) # argEnd - argStart + 1
    /\ ArgLines[1] # ArgLines[Len(ArgLines)]

\* C2: the call fails with InvalidRange, reporting startLine, endLine and the
\* document's line count, exactly when 1 <= startLine <= endLine <= lineCount
\* is violated; then no document is produced, and a range is never clamped.
ReplaceLinesRejects ==
    splicePc = "done" =>
        IF ArgRangeValid
        THEN returned.kind = "document"
        ELSE returned = [kind |-> "InvalidRange", startLine |-> argStart,
                         endLine |-> argEnd, totalLines |-> Len(ArgLines)]

\* C2 witness: an inverted range inside the document's extent is rejected
ReplaceLinesRejectsWitness ==
    /\ splicePc = "done"
    /\ returned.kind = "InvalidRange"
    /\ 1 <= argEnd /\ argEnd < argStart /\ argStart <= Len(ArgLines)

\* C3: replacing lines s..e by the newline-joined text of those same lines
\* returns the document exactly.
ReplaceLinesRoundTrip ==
    (/\ splicePc = "done"
     /\ ArgRangeValid
     /\ argText = join(SubSeq(ArgLines, argStart, argEnd)))
        => returned = [kind |-> "document", content |-> argDocument]

\* C3 witness: a round trip of a range of several lines inside a longer document
ReplaceLinesRoundTripWitness ==
    /\ splicePc = "done"
    /\ ArgRangeValid
    /\ argText = join(SubSeq(ArgLines, argStart, argEnd))
    /\ 1 < argStart /\ argStart < argEnd /\ argEnd < Len(ArgLines)
    /\ returned.kind = "document"

----------------------------------------------------------------------------
(* extractDesignTokenSection: the claims *)

Returned == pc = "done"
Found == pc = "done" /\ section.kind = "section"

\* the document's lines that start an anchor, by the tests of the scan
ThemeLines == {k \in 1..Len(lines) : isThemeStart(trim(lines[k]))}
RootLines == {k \in 1..Len(lines) : isRootStart(trim(lines[k]))}
DarkThemeLines == {k \in 1..Len(lines) : isDarkThemeStart(trim(lines[k]))}

Min(S) == CHOOSE m \in S : \A n \in S : m <= n

\* the braces of lines a..b: opening ones minus closing ones
RECURSIVE Balance(_, _)
Balance(a, b) == IF a > b THEN 0 ELSE braceDelta(lines[a]) + Balance(a + 1, b)

\* the lines at or after d on which the braces counted from line d balance
BalancedFrom(d) == {m \in d..Len(lines) : Balance(d, m) = 0}

\* a .dark-theme block that opens and whose depth returns to zero
ClosedDarkThemeLines ==
    {d \in DarkThemeLines : matchCount(lines[d], "{") > 0 /\ BalancedFrom(d) # {}}

\* C4 (as claimed): every document with a non-inline @theme start line and a
\* .dark-theme block that closes yields a section, wherever the blocks stand;
\* NotFound is returned only when one of the two is missing.
LocateFindsCompleteSection ==
    (Returned /\ ThemeLines # {} /\ ClosedDarkThemeLines # {}) => section.kind = "section"

\* C5: a returned section's content is lines [startLine, endLine] of the
\* document joined by newline, blocks.theme = startLine and
\* blocks.darkThemeEnd = endLine.
SectionContentIsSpan ==
    Found =>
        /\ 1 <= section.startLine
        /\ section.startLine <= section.endLine
        /\ section.endLine <= Len(split(cssContent))
        /\ section.content =
               join(SubSeq(split(cssContent), section.startLine, section.endLine))
        /\ section.blocks.theme = section.startLine
        /\ section.blocks.darkThemeEnd = section.endLine

\* C5 witness: a section of several lines that starts after the document's
\* first line
SectionContentIsSpanWitness ==
    /\ Found
    /\ 1 < section.startLine
    /\ section.startLine + 1 < section.endLine
    /\ section.blocks.root = -1

\* C6 (as claimed): endLine is the first line at or after the .dark-theme start
\* line at which the braces counted from that start line balance, also when
\* the block opens and closes on one line and more CSS follows.
SectionEndsAtDarkThemeClose ==
    Found =>
        /\ BalancedFrom(section.blocks.darkTheme) # {}
        /\ section.endLine = Min(BalancedFrom(section.blocks.darkTheme))

\* C7 (as claimed): startLine <= blocks.root and startLine <= blocks.darkTheme
\* whenever these are not -1, and endLine = blocks.darkThemeEnd: every recorded
\* anchor lies inside [startLine, endLine].
SectionSpansAllAnchors ==
    Found =>
        /\ section.blocks.root # -1 => section.startLine <= section.blocks.root
        /\ section.blocks.darkTheme # -1 => section.startLine <= section.blocks.darkTheme
        /\ section.endLine = section.blocks.darkThemeEnd

\* C7 (amended): a section spans from the @theme start to the .dark-theme end:
\* startLine = blocks.theme, startLine <= blocks.darkTheme, which is never -1,
\* endLine = blocks.darkThemeEnd, and blocks.root, when not -1, is a line at
\* or before endLine (it may lie before startLine).
SectionSpansThemeToDarkTheme ==
    Found =>
        /\ section.startLine = section.blocks.theme
        /\ section.blocks.darkTheme # -1
        /\ section.startLine <= section.blocks.darkTheme
        /\ section.blocks.darkTheme <= section.endLine
        /\ section.endLine = section.blocks.darkThemeEnd
        /\ section.blocks.root # -1 =>
               1 <= section.blocks.root /\ section.blocks.root <= section.endLine

\* C7 witness: a section whose :root anchor was recorded before its start line
SectionSpansThemeToDarkThemeWitness ==
    /\ Found
    /\ section.blocks.root # -1
    /\ section.blocks.root < section.startLine
    /\ section.startLine < section.blocks.darkTheme

\* C8 (as claimed): while the scanner is inside a tracked block, a line
\* starting with @theme (non-inline), :root or .dark-theme only updates the
\* brace depth: it records no start line, does not reset braceDepth and does
\* not change currentBlockType to another block's type.
AnchorsOnlyOutsideBlocks ==
    [][(/\ pc = "scan"
        /\ inBlock
        /\ \/ isThemeStart(trimmedLine)
           \/ isRootStart(trimmedLine)
           \/ isDarkThemeStart(trimmedLine))
       => (/\ themeStartLine' = themeStartLine
           /\ rootStartLine' = rootStartLine
           /\ darkThemeStartLine' = darkThemeStartLine
           /\ braceDepth' = braceDepth + braceDelta(line)
           /\ currentBlockType' \in {currentBlockType, "null"})]_vars

\* C9 (as claimed): blocks.theme is the first non-inline @theme line of the
\* document, blocks.root (when not -1) the first :root line, and
\* blocks.darkTheme the first .dark-theme line: a later .dark-theme line never
\* moves it.
SubPositionsAreFirstOccurrences ==
    Found =>
        /\ section.blocks.theme = Min(ThemeLines)
        /\ section.blocks.root # -1 => section.blocks.root = Min(RootLines)
        /\ section.blocks.darkTheme = Min(DarkThemeLines)

\* C10: a document with no non-inline @theme line, or with no .dark-theme line,
\* makes the call return null, whatever :root blocks it contains.
MissingAnchorIsNotFound ==
    (Returned /\ (ThemeLines = {} \/ DarkThemeLines = {})) => section = NotFound

\* C10 witness: no @theme line, yet a :root block and a .dark-theme block that
\* the scan saw close
MissingAnchorIsNotFoundWitness ==
    /\ Returned
    /\ ThemeLines = {}
    /\ rootStartLine # -1
    /\ darkThemeEndLine # -1
    /\ section = NotFound

----------------------------------------------------------------------------
(* extractThemeBlocks and the two scanners together: the claims *)

BlocksReturned == pc = "blocksDone"

\* the lines of the document that pass extractThemeBlocks' @theme test
ThemeDeclarationLines == {k \in 1..Len(lines) : isThemeDeclaration(lines[k])}

\* the line opens a block and its own braces balance: a one-line { } block
OneLineBlock(k) == matchCount(lines[k], "{") > 0 /\ braceDelta(lines[k]) = 0

\* C11 (as claimed): an @theme line whose own braces balance closes
\* immediately: it is emitted as a block with endLine = startLine whose
\* content is that single line.  Stated of the document's first @theme line,
\* which is always met outside a block.
OneLineThemeBlockCloses ==
    (/\ BlocksReturned
     /\ ThemeDeclarationLines # {}
     /\ OneLineBlock(Min(ThemeDeclarationLines)))
        => LET k == Min(ThemeDeclarationLines)
           IN  /\ Len(blocks) >= 1
               /\ blocks[1].startLine = k
               /\ blocks[1].endLine = k
               /\ blocks[1].content = lines[k]

\* C12: an anchor whose brace depth never returns to zero by the end of the
\* document is never emitted: extractThemeBlocks returns no block that starts
\* on a line from which the braces never balance, and a document whose
\* .dark-theme lines all start such a block makes extractDesignTokenSection
\* return null; both scans run through the last line of the document.
UnterminatedAnchorNotEmitted ==
    /\ BlocksReturned =>
           /\ i = Len(lines)
           /\ \A n \in 1..Len(blocks) : BalancedFrom(blocks[n].startLine) # {}
    /\ (/\ Returned
        /\ DarkThemeLines # {}
        /\ \A d \in DarkThemeLines : BalancedFrom(d) = {})
           => section = NotFound /\ i = Len(lines)

\* C12 witness: extractThemeBlocks returns with an emitted block and a later
\* block still open at the end of the document
UnterminatedAnchorNotEmittedWitness ==
    /\ BlocksReturned
    /\ Len(blocks) = 1
    /\ inBlock
    /\ braceDepth > 0
    /\ blockStartLine > blocks[1].endLine
    /\ BalancedFrom(blockStartLine) = {}

\* the braces of the first k characters: opening ones minus closing ones
PrefixDepth(text, k) ==
    matchCount(SubSeq(text, 1, k), "{") - matchCount(SubSeq(text, 1, k), "}")

\* in every prefix of the text "}" never outnumbers "{", and the totals agree
WellFormed(text) ==
    /\ \A k \in 1..Len(text) : PrefixDepth(text, k) >= 0
    /\ PrefixDepth(text, Len(text)) = 0

\* C13 (as claimed): for a well-formed document braceDepth is >= 0 in every
\* state of either scan.
BraceDepthNeverNegative == braceDepth >= 0 \/ ~WellFormed(cssContent)

\* C19: extractThemeBlocks returns well-formed blocks in document order: each
\* has 1 <= startLine <= endLine <= lineCount, a start line whose trimmed text
\* starts with @theme, the joined lines startLine..endLine as content, the
\* type 'theme inline' if its start line contains inline and 'theme'
\* otherwise, and a startLine greater than the previous block's endLine.
ThemeBlocksWellFormed ==
    LET docLines == split(cssContent)
    IN  \A n \in 1..Len(blocks) :
            LET b == blocks[n]
            IN  /\ 1 <= b.startLine
                /\ b.startLine <= b.endLine
                /\ b.endLine <= Len(docLines)
                /\ startsWith(trim(docLines[b.startLine]), AtTheme)
                /\ b.content = join(SubSeq(docLines, b.startLine, b.endLine))
                /\ b.type = IF includes(docLines[b.startLine], Inline)
                            THEN "theme inline" ELSE "theme"
                /\ n > 1 => b.startLine > blocks[n - 1].endLine

\* C19 witness: two blocks returned, an inline one and then a main one
ThemeBlocksWellFormedWitness ==
    /\ BlocksReturned
    /\ Len(blocks) = 2
    /\ blocks[1].type = "theme inline"
    /\ blocks[2].type = "theme"

\* an @theme or :root block is still open (the braces counted from its start
\* line stay above zero) on the line before a later anchor line
OpenAtNextAnchor ==
    \E a \in ThemeLines \cup RootLines :
        \E b \in ThemeLines \cup RootLines \cup DarkThemeLines :
            /\ a < b
            /\ \A m \in a..(b - 1) : Balance(a, m) > 0

\* C20 (as claimed): a document whose @theme or :root block is still open when
\* the next anchor line starts yields no section, and the content of every
\* returned section has as many "{" as "}".
UnbalancedInputIsNotFound ==
    Found => /\ ~OpenAtNextAnchor
             /\ matchCount(section.content, "{") = matchCount(section.content, "}")

----------------------------------------------------------------------------
(* The server: the claims *)

Done(r) == runs[r].pc = "done"

\* the run's updateFile call is accepted by the store in this step
WriteSucceeds(r) ==
    /\ runs[r].pc = "updateFile"
    /\ \/ runs'[r].pc = "getPullRequest"
       \/ runs'[r].pc = "done" /\ runs'[r].result.success

\* C14: no lost update.  Under every interleaving of runs, a run's write to
\* the bot branch carries the sha of the content that run read itself, and it
\* succeeds only while the bot branch file still holds that content: the
\* content a successful write replaces is the one the run read and merged.
NoLostUpdate ==
    [][\A r \in Requests :
          WriteSucceeds(r) =>
              /\ BotBranch \in branches
              /\ runs[r].fileSha = blobSha(runs[r].oldCSS)
              /\ files[BotBranch] = runs[r].oldCSS
              /\ files'[BotBranch] = runs[r].mergedCSS]_vars

\* C14 witness: one run's write went through and another run's write, made
\* with the sha of content that had been replaced meanwhile, was rejected
NoLostUpdateWitness ==
    \E p, q \in Requests :
        /\ Done(p) /\ runs[p].result.success /\ ~runs[p].result.noChanges
        /\ Done(q) /\ runs[q].result.error = "sha does not match"

OpenPullRequestExists == openPulls(BotBranch, Main) # {}

\* C15 (as claimed): when no run is in progress and the bot branch exists, an
\* open pull request from the bot branch to main exists.
BranchHasOpenPullRequest ==
    (/\ \A r \in Requests : runs[r].pc \in {"idle", "done"}
     /\ BotBranch \in branches)
        => OpenPullRequestExists

\* C16 (as claimed): the response to a request whose workflow was started is
\* sent after the workflow has finished and carries its outcome: success with
\* the prUrl, or failure with the error message and an error status code.
ResponseReportsOutcome ==
    \A r \in Requests :
        (responses[r] # Undefined /\ runs[r].pc # "idle") =>
            /\ Done(r)
            /\ responses[r].success = runs[r].result.success
            /\ runs[r].result.success =>
                   /\ "prUrl" \in DOMAIN responses[r]
                   /\ responses[r].prUrl = runs[r].result.prUrl
            /\ ~runs[r].result.success =>
                   /\ responses[r].error = runs[r].result.error
                   /\ responses[r].status >= 400

\* the run calls createPullRequest in this step
CallsCreatePullRequest(r) ==
    /\ runs[r].pc = "createPullRequest"
    /\ runs'[r].pc # "createPullRequest"

\* C17 (as claimed): createPullRequest is never called while an open pull
\* request from the bot branch to main exists, and a run that finds an open
\* pull request returns its URL without creating another (unless the call
\* itself fails).
CreatesPullRequestOnlyWithoutOpenOne ==
    [][\A r \in Requests :
          /\ CallsCreatePullRequest(r) => ~OpenPullRequestExists
          /\ (runs[r].pc = "getPullRequest" /\ runs'[r].pc # "getPullRequest"
              /\ OpenPullRequestExists)
                 => /\ Done(r)'
                    /\ pulls' = pulls
                    /\ runs'[r].result.success =>
                           runs'[r].result.prUrl \in
                               {PullUrl(n) : n \in openPulls(BotBranch, Main)}]_vars

\* the positions k of the run's call log that hold a call of op
CallsOf(r, op) == {k \in 1..Len(runs[r].calls) : runs[r].calls[k].op = op}

\* C18: branch selection.  A run that found no bot branch fetches the old CSS
\* from main and creates the bot branch from main afterwards; a run that
\* found the branch fetches from the bot branch and creates none; the merged
\* file is pushed to the bot branch only, after the fetch (and the creation).
BranchSelection ==
    \A r \in Requests :
        LET log == runs[r].calls
            fetches == CallsOf(r, "getFileContent")
            creations == CallsOf(r, "createBranch")
            pushes == CallsOf(r, "updateFile")
        IN  /\ \A k \in fetches :
                  log[k].ref = IF runs[r].botBranchExists THEN BotBranch ELSE Main
            /\ \A k \in creations :
                  /\ ~runs[r].botBranchExists
                  /\ log[k].ref = Main
                  /\ \E j \in fetches : j < k
            /\ \A k \in pushes :
                  /\ log[k].ref = BotBranch
                  /\ \E j \in fetches : j < k
                  /\ ~runs[r].botBranchExists => \E j \in creations : j < k
            /\ \A k \in 1..Len(log) :
                  log[k].op = "branchExists" <=> k = 1

\* C18 witness: one run took the path from main, creating the branch, and
\* another the path from the bot branch; both pushed
BranchSelectionWitness ==
    \E p, q \in Requests :
        /\ ~runs[p].botBranchExists
        /\ CallsOf(p, "createBranch") # {}
        /\ CallsOf(p, "updateFile") # {}
        /\ runs[q].botBranchExists
        /\ CallsOf(q, "updateFile") # {}

\* the calls a run makes after the splice: the push and the pull request ones
CallsAfterSplice(r) ==
    CallsOf(r, "updateFile") \cup CallsOf(r, "getPullRequest")
        \cup CallsOf(r, "createPullRequest")

\* the run has spliced and the spliced document equals the old one
SplicedEqualsOld(r) ==
    /\ runs[r].pc \in {"updateFile", "getPullRequest", "createPullRequest", "done"}
    /\ runs[r].oldCSS # <<>>
    /\ runs[r].mergedCSS = runs[r].oldCSS

\* C21: no-change short-circuit.  A run whose spliced document equals the old
\* document has returned success: true with noChanges: true and has made no
\* updateFile, getPullRequest or createPullRequest call; a run returns
\* noChanges only in that case.
NoChangeShortCircuit ==
    \A r \in Requests :
        /\ SplicedEqualsOld(r) =>
               /\ Done(r)
               /\ runs[r].result.success
               /\ runs[r].result.noChanges
               /\ CallsAfterSplice(r) = {}
        /\ (Done(r) /\ runs[r].result.noChanges) => SplicedEqualsOld(r)

\* C21 witness: a run that created the bot branch and then found no change
NoChangeShortCircuitWitness ==
    \E r \in Requests :
        /\ Done(r)
        /\ runs[r].result.noChanges
        /\ CallsOf(r, "createBranch") # {}
        /\ files[BotBranch] = runs[r].oldCSS

\* the run returns {success: false, error} in this step
Fails(r) == ~Done(r) /\ Done(r)' /\ ~runs'[r].result.success

\* C22: processUpdate never throws.  A failing step ends the run with the
\* value {success: false, error: <message>}: the run has a result only when
\* it has returned, the failing step changes nothing in the repository and
\* makes no further call, and a run that has returned takes no later step.
FailureEndsRun ==
    [][\A r \in Requests :
          /\ Done(r) => runs'[r] = runs[r]
          /\ runs'[r].result # Undefined => Done(r)'
          /\ Fails(r) =>
                 /\ runs'[r].result.error # "undefined"
                 /\ runs'[r].result.prUrl = Undefined
                 /\ Len(runs'[r].calls) <= Len(runs[r].calls) + 1
                 /\ branches' = branches
                 /\ files' = files
                 /\ pulls' = pulls]_vars

\* C22 witness: two runs have failed at different steps, one at the branch
\* creation and one at the section extraction
FailureEndsRunWitness ==
    \E p, q \in Requests :
        /\ Done(p) /\ runs[p].result.error = "Reference already exists"
        /\ Done(q) /\ runs[q].result.error = "No complete token section found in new CSS"

\* the six variables the handler requires
SixRequiredVariables ==
    {"ANTHROPIC_API_KEY", "GITHUB_TOKEN", "GITHUB_OWNER", "GITHUB_REPO",
     "TARGET_FILE_PATH", "BOT_BRANCH"}

Received(r) == requests[r] # Undefined

NonEmptyString(body) == body.type = "string" /\ body.value # <<>>

\* C23: the webhook starts a run only for a body that is a non-empty string
\* and only with all six required variables set; an empty or non-string body
\* is answered 400 and a missing variable 500, in both cases without a run;
\* every request received has its one response, which never changes.
WebhookGuardsRun ==
    [][\A r \in Requests :
          /\ Received(r)' <=> responses'[r] # Undefined
          /\ responses[r] # Undefined => responses'[r] = responses[r]
          /\ runs'[r].pc # "idle" =>
                 /\ Received(r)'
                 /\ NonEmptyString(requests'[r].body)
                 /\ SixRequiredVariables \subseteq processEnv'
          /\ (Received(r)' /\ ~NonEmptyString(requests'[r].body)) =>
                 /\ responses'[r].status = 400
                 /\ ~responses'[r].success
                 /\ runs'[r].pc = "idle"
          /\ (/\ Received(r)'
              /\ NonEmptyString(requests'[r].body)
              /\ ~(SixRequiredVariables \subseteq processEnv')) =>
                 /\ responses'[r].status = 500
                 /\ ~responses'[r].success
                 /\ runs'[r].pc = "idle"]_vars

\* C23 witness: with one variable missing, one request was answered 400 and
\* another 500, and no run was started
WebhookGuardsRunWitness ==
    /\ Cardinality(SixRequiredVariables \ processEnv) = 1
    /\ \E p, q \in Requests :
        /\ Received(p) /\ responses[p].status = 400
        /\ Received(q) /\ responses[q].status = 500
    /\ \A r \in Requests : runs[r].pc = "idle"

\* C24: locate and splice compose.  Splicing any text over the lines of a
\* returned section never fails with InvalidRange, and splicing the section's
\* own content returns the document exactly, so that the workflow's
\* comparison finds no change.
SpliceOverSection ==
    splicePc = "done" =>
        /\ returned.kind = "document"
        /\ argText = section.content =>
               /\ returned.content = cssContent
               /\ noChanges(returned.content, argDocument)

\* C24 witness: the content of a section that starts after the first line
\* of the document was spliced back over it
SpliceOverSectionWitness ==
    /\ splicePc = "done"
    /\ argText = section.content
    /\ 1 < section.startLine
    /\ returned.kind = "document"

\* C25: the positions of every returned section are ordered:
\* 1 <= startLine = blocks.theme < blocks.darkTheme < blocks.darkThemeEnd
\* = endLine <= line count; blocks.darkTheme is never -1 and blocks.root is
\* -1 or a line strictly before blocks.darkTheme.
SectionPositionsOrdered ==
    Found =>
        /\ 1 <= section.startLine
        /\ section.startLine = section.blocks.theme
        /\ section.blocks.theme < section.blocks.darkTheme
        /\ section.blocks.darkTheme < section.blocks.darkThemeEnd
        /\ section.blocks.darkThemeEnd = section.endLine
        /\ section.endLine <= Len(split(cssContent))
        /\ section.blocks.darkTheme # -1
        /\ \/ section.blocks.root = -1
           \/ /\ 1 <= section.blocks.root
              /\ section.blocks.root < section.blocks.darkTheme

\* C25 witness: a section with a :root line between its @theme line and its
\* .dark-theme line
SectionPositionsOrderedWitness ==
    /\ Found
    /\ section.blocks.theme < section.blocks.root
    /\ section.blocks.root < section.blocks.darkTheme

SectionErrors ==
    {"No complete token section found in old CSS",
     "No complete token section found in new CSS"}

\* C26 (as claimed): a run that returns success: false because the old or the
\* new CSS has no complete token section has changed nothing in the remote
\* repository: it has created no branch, updated no file and created no pull
\* request.
SectionFailureLeavesRemoteUnchanged ==
    \A r \in Requests :
        (Done(r) /\ runs[r].result.error \in SectionErrors) =>
            /\ CallsOf(r, "createBranch") = {}
            /\ CallsOf(r, "updateFile") = {}
            /\ CallsOf(r, "createPullRequest") = {}

\* C27 (as claimed): on every document for which extractDesignTokenSection
\* returns a section and extractMainThemeBlock returns a block, the section
\* and the block start on the same line.
ScannersAgreeOnThemeStart ==
    (/\ pc = "mainDone"
     /\ section.kind = "section"
     /\ mainThemeBlock # NotFound)
        => section.startLine = mainThemeBlock.startLine

====
